---- MODULE Spec2Model ----
(***************************************************************************)
(* Model of program_09.py: the four data quality checks applied to the     *)
(* daily series DataDF and the counts kept in ReplacedValuesDF.            *)
(*                                                                         *)
(* A cell of DataDF is a float or NaN.  It is modelled as a record         *)
(* [na, v]: na = TRUE is NaN (v is then 0), na = FALSE is the number v.    *)
(* Comparisons and arithmetic follow IEEE/NumPy: a comparison with NaN is  *)
(* False, arithmetic with NaN is NaN.                                      *)
(***************************************************************************)
EXTENDS Integers, Sequences, FiniteSets, TLC

\* Largest number of records of the input table.
MaxRows == 2

\* colNames[1:] of ReadData: the columns of DataDF and of ReplacedValuesDF.
colNames == <<"Precip", "Max Temp", "Min Temp", "Wind Speed">>

Cols == {colNames[k] : k \in 1..4}

\* The index of ReplacedValuesDF.
RowNames == <<"1. No Data", "2. Gross Error", "3. Swapped", "4. Range Fail">>

Rows == {RowNames[k] : k \in 1..4}

\* np.NaN
NaN == [na |-> TRUE, v |-> 0]

\* A float cell holding n.
Num(n) == [na |-> FALSE, v |-> n]

\* Series.isna(), on one cell.
isna(x) == x.na

\* x > y on floats: False when either side is NaN.
GtMutNaNSmallest(x, y) == ~x.na /\ (y.na \/ x.v > y.v)

Gt(x, y) == ~x.na /\ ~y.na /\ x.v > y.v

\* x < y on floats: False when either side is NaN.
Lt(x, y) == ~x.na /\ ~y.na /\ x.v < y.v

\* x == y on floats: False when either side is NaN.
Eq(x, y) == ~x.na /\ ~y.na /\ x.v = y.v

\* x - y on floats: NaN when either side is NaN.
Sub(x, y) == IF x.na \/ y.na THEN NaN ELSE Num(x.v - y.v)

\* The No Data value replaced by Check01.
NoDataValue == -999

\* DataDF[col].isna().sum()
isnaSum(df, c) == Cardinality({i \in 1..Len(df) : isna(df[i][c])})

\* ReplacedValuesDF.sum(): the sum of one column over all four rows.
colSumMutNoDataRow(rv, c) == rv["1. No Data"][c]

colSum(rv, c) ==
    rv["1. No Data"][c] + rv["2. Gross Error"][c] + rv["3. Swapped"][c] + rv["4. Range Fail"][c]

\* DataFrame.replace(-999, np.NaN), on one cell.
replaceMutOnlyPrecip(c, x) == IF c = "Precip" /\ Eq(x, Num(NoDataValue)) THEN NaN ELSE x

replace(c, x) == IF Eq(x, Num(NoDataValue)) THEN NaN ELSE x

\* Check01_RemoveNoDataValues: returns <<DataDF, ReplacedValuesDF>>.
Check01_RemoveNoDataValues(df, rv) ==
    LET d == [i \in 1..Len(df) |-> [c \in Cols |-> replace(c, df[i][c])]]
    IN  <<d, [rv EXCEPT !["1. No Data"] = [c \in Cols |-> isnaSum(d, c)]]>>

\* The mask conditions of Check02, one per column.
GrossErrorCondMutInclusive(c, x) ==
    CASE c = "Precip"     -> Gt(x, Num(25)) \/ Eq(x, Num(25)) \/ Lt(x, Num(0)) \/ Eq(x, Num(0))
      [] c = "Max Temp"   -> Gt(x, Num(35)) \/ Eq(x, Num(35)) \/ Lt(x, Num(-25)) \/ Eq(x, Num(-25))
      [] c = "Min Temp"   -> Gt(x, Num(35)) \/ Eq(x, Num(35)) \/ Lt(x, Num(-25)) \/ Eq(x, Num(-25))
      [] c = "Wind Speed" -> Gt(x, Num(10)) \/ Eq(x, Num(10)) \/ Lt(x, Num(0)) \/ Eq(x, Num(0))

GrossErrorCond(c, x) ==
    CASE c = "Precip"     -> Gt(x, Num(25)) \/ Lt(x, Num(0))
      [] c = "Max Temp"   -> Gt(x, Num(35)) \/ Lt(x, Num(-25))
      [] c = "Min Temp"   -> Gt(x, Num(35)) \/ Lt(x, Num(-25))
      [] c = "Wind Speed" -> Gt(x, Num(10)) \/ Lt(x, Num(0))

\* Series.mask(cond, np.NaN), on one cell.
mask(x, cond) == IF cond THEN NaN ELSE x

\* Check02_GrossErrors: returns <<DataDF, ReplacedValuesDF>>.
Check02MutTotalCount(df, rv) ==
    LET d == [i \in 1..Len(df) |-> [c \in Cols |-> mask(df[i][c], GrossErrorCond(c, df[i][c]))]]
    IN  <<d, [rv EXCEPT !["2. Gross Error"] = [c \in Cols |-> isnaSum(d, c)]]>>

Check02_GrossErrors(df, rv) ==
    LET d == [i \in 1..Len(df) |-> [c \in Cols |-> mask(df[i][c], GrossErrorCond(c, df[i][c]))]]
    IN  <<d, [rv EXCEPT !["2. Gross Error"] = [c \in Cols |-> isnaSum(d, c) - colSum(rv, c)]]>>

\* np.where(cond, x, y), on one element.
where(cond, x, y) == IF cond THEN x ELSE y

\* The row [0, n, n, 0] written by Check03 and Check04.
TempCountRowMutMaxOnly(n) ==
    [c \in Cols |-> IF c = "Max Temp" THEN n ELSE 0]

TempCountRow(n) ==
    [c \in Cols |-> IF c \in {"Max Temp", "Min Temp"} THEN n ELSE 0]

\* Check03_TmaxTminSwapped: returns <<DataDF, ReplacedValuesDF>>.
Check03MutCountOnly(df, rv) ==
    LET instances == Cardinality({i \in 1..Len(df) : Gt(df[i]["Min Temp"], df[i]["Max Temp"])})
    IN  <<df, [rv EXCEPT !["3. Swapped"] = TempCountRow(instances)]>>

Check03MutCountNotGreater(df, rv) ==
    LET instances == Cardinality({i \in 1..Len(df) :
                                     ~Gt(df[i]["Max Temp"], df[i]["Min Temp"])
                                     /\ ~Eq(df[i]["Max Temp"], df[i]["Min Temp"])})
        d == [i \in 1..Len(df) |->
                 [df[i] EXCEPT
                     !["Min Temp"] = where(Gt(df[i]["Min Temp"], df[i]["Max Temp"]),
                                           df[i]["Max Temp"], df[i]["Min Temp"]),
                     !["Max Temp"] = where(Gt(df[i]["Min Temp"], df[i]["Max Temp"]),
                                           df[i]["Min Temp"], df[i]["Max Temp"])]]
    IN  <<d, [rv EXCEPT !["3. Swapped"] = TempCountRow(instances)]>>

Check03_TmaxTminSwapped(df, rv) ==
    LET instances == Cardinality({i \in 1..Len(df) : Gt(df[i]["Min Temp"], df[i]["Max Temp"])})
        d == [i \in 1..Len(df) |->
                 [df[i] EXCEPT
                     !["Min Temp"] = where(Gt(df[i]["Min Temp"], df[i]["Max Temp"]),
                                           df[i]["Max Temp"], df[i]["Min Temp"]),
                     !["Max Temp"] = where(Gt(df[i]["Min Temp"], df[i]["Max Temp"]),
                                           df[i]["Min Temp"], df[i]["Max Temp"])]]
    IN  <<d, [rv EXCEPT !["3. Swapped"] = TempCountRow(instances)]>>

\* Check04_TmaxTminRange: returns <<DataDF, ReplacedValuesDF>>.
Check04MutMaxOnly(df, rv) ==
    LET fails(i) == Gt(Sub(df[i]["Max Temp"], df[i]["Min Temp"]), Num(25))
        instances2 == Cardinality({i \in 1..Len(df) : fails(i)})
        d == [i \in 1..Len(df) |->
                 IF fails(i) THEN [df[i] EXCEPT !["Max Temp"] = NaN] ELSE df[i]]
    IN  <<d, [rv EXCEPT !["4. Range Fail"] = TempCountRow(instances2)]>>

Check04_TmaxTminRange(df, rv) ==
    LET fails(i) == Gt(Sub(df[i]["Max Temp"], df[i]["Min Temp"]), Num(25))
        instances2 == Cardinality({i \in 1..Len(df) : fails(i)})
        d == [i \in 1..Len(df) |->
                 IF fails(i)
                 THEN [df[i] EXCEPT !["Max Temp"] = NaN, !["Min Temp"] = NaN]
                 ELSE df[i]]
    IN  <<d, [rv EXCEPT !["4. Range Fail"] = TempCountRow(instances2)]>>

(***************************************************************************)
(* The input tables.                                                       *)
(***************************************************************************)
Rec(p, tmax, tmin, w) ==
    [c \in Cols |-> CASE c = "Precip"     -> p
                      [] c = "Max Temp"   -> tmax
                      [] c = "Min Temp"   -> tmin
                      [] c = "Wind Speed" -> w]

PrecipValues == {Num(n) : n \in {NoDataValue, -1, 0, 25, 26}} \cup {NaN}

TempValues == {Num(n) : n \in {NoDataValue, -26, -25, 10, 35, 36}} \cup {NaN}

WindValues == {Num(n) : n \in {NoDataValue, -1, 0, 10, 11}} \cup {NaN}

\* The records a table is made of: every pair of temperatures with plain
\* precipitation and wind, every precipitation and every wind with plain
\* temperatures, and three records with mixed defects.
InputRecords ==
    {Rec(Num(5), a, b, Num(3)) : a \in TempValues, b \in TempValues}
    \cup {Rec(p, Num(10), Num(10), Num(3)) : p \in PrecipValues}
    \cup {Rec(Num(5), Num(10), Num(10), w) : w \in WindValues}
    \cup {Rec(Num(NoDataValue), Num(10), Num(20), Num(5)),
          Rec(Num(5), Num(40), Num(10), Num(3)),
          Rec(Num(26), Num(30), Num(-5), Num(11))}

InputTables == UNION {[1..n -> InputRecords] : n \in 0..MaxRows}

VARIABLES DataDF, ReplacedValuesDF, pc, argDF, argRV

vars == <<DataDF, ReplacedValuesDF, pc, argDF, argRV>>

\* ReadData: the table read from the file and the all-zero counts.
Init ==
    /\ DataDF \in InputTables
    /\ ReplacedValuesDF = [r \in Rows |-> [c \in Cols |-> 0]]
    /\ pc = "ReadData"
    /\ argDF = DataDF
    /\ argRV = ReplacedValuesDF

\* One call  DataDF, ReplacedValuesDF = f( DataDF, ReplacedValuesDF ).
\* argDF and argRV keep the arguments of the call.
Call(result, next) ==
    /\ DataDF' = result[1]
    /\ ReplacedValuesDF' = result[2]
    /\ argDF' = DataDF
    /\ argRV' = ReplacedValuesDF
    /\ pc' = next

RunCheck01 ==
    /\ pc = "ReadData"
    /\ Call(Check01_RemoveNoDataValues(DataDF, ReplacedValuesDF), "Check01")

RunCheck02 ==
    /\ pc = "Check01"
    /\ Call(Check02_GrossErrors(DataDF, ReplacedValuesDF), "Check02")

RunCheck03 ==
    /\ pc = "Check02"
    /\ Call(Check03_TmaxTminSwapped(DataDF, ReplacedValuesDF), "Check03")

RunCheck04 ==
    /\ pc = "Check03"
    /\ Call(Check04_TmaxTminRange(DataDF, ReplacedValuesDF), "Check04")

Next == RunCheck01 \/ RunCheck02 \/ RunCheck03 \/ RunCheck04

Spec == Init /\ [][Next]_vars

\* Check01 applied a second time, to its own output.
ReapplyCheck01 ==
    /\ pc = "Check01"
    /\ Call(Check01_RemoveNoDataValues(DataDF, ReplacedValuesDF), "Check01Again")

\* Check02 applied a second time, to its own output.
ReapplyCheck02 ==
    /\ pc = "Check02"
    /\ Call(Check02_GrossErrors(DataDF, ReplacedValuesDF), "Check02Again")

NextReapply == Next \/ ReapplyCheck01 \/ ReapplyCheck02

SpecReapply == Init /\ [][NextReapply]_vars

(***************************************************************************)
(* Properties.  They are stated on the cells themselves (na, v) and do not *)
(* use the comparison operators of the checks.                             *)
(***************************************************************************)
RowIdx == 1..Len(DataDF)

\* The closed bound of a column.
Lower(c) == IF c \in {"Max Temp", "Min Temp"} THEN -25 ELSE 0

Upper(c) == CASE c = "Precip" -> 25
              [] c \in {"Max Temp", "Min Temp"} -> 35
              [] c = "Wind Speed" -> 10

InBound(c, x) == ~x.na /\ Lower(c) <= x.v /\ x.v <= Upper(c)

OnBound(c, x) == ~x.na /\ (x.v = Lower(c) \/ x.v = Upper(c))

BothTemps(r) == ~r["Max Temp"].na /\ ~r["Min Temp"].na

Spread(r) == r["Max Temp"].v - r["Min Temp"].v

Missing(df, c) == {i \in 1..Len(df) : df[i][c].na}

ZeroRow == [c \in Cols |-> 0]

\* C1: after Check02_GrossErrors every present value lies within the closed
\* bound of its column; a value on or inside the bound is kept unchanged and
\* only values strictly outside the bound become missing.
C1_GrossErrorsBounds ==
    pc = "Check02" =>
        \A i \in RowIdx : \A c \in Cols :
            /\ ~DataDF[i][c].na => InBound(c, DataDF[i][c])
            /\ InBound(c, argDF[i][c]) => DataDF[i][c] = argDF[i][c]
            /\ (DataDF[i][c].na /\ ~argDF[i][c].na) =>
                   (argDF[i][c].v < Lower(c) \/ argDF[i][c].v > Upper(c))
            /\ (~argDF[i][c].na /\ ~InBound(c, argDF[i][c])) => DataDF[i][c].na

C1_Witness ==
    /\ pc = "Check02"
    /\ \E i \in RowIdx : \E c \in Cols : OnBound(c, argDF[i][c]) /\ DataDF[i][c] = argDF[i][c]
    /\ \E i \in RowIdx : \E c \in Cols : ~argDF[i][c].na /\ DataDF[i][c].na

\* C2: after Check03_TmaxTminSwapped and in every later state of the
\* pipeline, every record with both temperatures present has
\* maxTemp >= minTemp.
C2_OrderInvariant ==
    pc \in {"Check03", "Check04"} =>
        \A i \in RowIdx :
            BothTemps(DataDF[i]) => DataDF[i]["Max Temp"].v >= DataDF[i]["Min Temp"].v

C2_Witness ==
    /\ pc = "Check03"
    /\ \E i \in RowIdx :
          /\ BothTemps(argDF[i])
          /\ argDF[i]["Min Temp"].v > argDF[i]["Max Temp"].v
          /\ BothTemps(DataDF[i])

\* C3: after Check04_TmaxTminRange every record with both temperatures
\* present has maxTemp - minTemp <= 25; a record that had both present with a
\* spread above 25 has both missing, and no other record is changed.
C3_SpreadInvariant ==
    pc = "Check04" =>
        \A i \in RowIdx :
            /\ BothTemps(DataDF[i]) => Spread(DataDF[i]) <= 25
            /\ IF BothTemps(argDF[i]) /\ Spread(argDF[i]) > 25
               THEN /\ DataDF[i]["Max Temp"].na
                    /\ DataDF[i]["Min Temp"].na
                    /\ DataDF[i]["Precip"] = argDF[i]["Precip"]
                    /\ DataDF[i]["Wind Speed"] = argDF[i]["Wind Speed"]
               ELSE DataDF[i] = argDF[i]

C3_Witness ==
    /\ pc = "Check04"
    /\ \E i \in RowIdx : BothTemps(argDF[i]) /\ Spread(argDF[i]) > 25 /\ ~BothTemps(DataDF[i])
    /\ \E i \in RowIdx : BothTemps(DataDF[i]) /\ Spread(DataDF[i]) = 25

\* C4: in pipeline order on all-zero counts, after Check02_GrossErrors the
\* Gross Error cell of each column is the number of missing values of the
\* column minus its No Data cell, which is the number of values Check02 newly
\* masked, and is never negative.
C4_GrossErrorCount ==
    pc = "Check02" =>
        \A c \in Cols :
            /\ ReplacedValuesDF["2. Gross Error"][c]
                   = Cardinality(Missing(DataDF, c)) - ReplacedValuesDF["1. No Data"][c]
            /\ ReplacedValuesDF["2. Gross Error"][c]
                   = Cardinality(Missing(DataDF, c) \ Missing(argDF, c))
            /\ ReplacedValuesDF["2. Gross Error"][c] >= 0

C4_Witness ==
    /\ pc = "Check02"
    /\ \E c \in Cols :
          /\ ReplacedValuesDF["1. No Data"][c] > 0
          /\ ReplacedValuesDF["2. Gross Error"][c] > 0

\* The records Check03 has to exchange: both temperatures present and
\* minTemp > maxTemp.
Inverted(df) ==
    {i \in 1..Len(df) : BothTemps(df[i]) /\ df[i]["Min Temp"].v > df[i]["Max Temp"].v}

\* C5: Check03_TmaxTminSwapped exchanges the temperatures in exactly the
\* records with both present and minTemp > maxTemp; every other record is
\* untouched and not counted; the Swapped row is [0, n, n, 0] with n the
\* number of records exchanged.
C5_SwapExact ==
    pc = "Check03" =>
        /\ \A i \in RowIdx :
              IF i \in Inverted(argDF)
              THEN /\ DataDF[i]["Max Temp"] = argDF[i]["Min Temp"]
                   /\ DataDF[i]["Min Temp"] = argDF[i]["Max Temp"]
                   /\ DataDF[i]["Precip"] = argDF[i]["Precip"]
                   /\ DataDF[i]["Wind Speed"] = argDF[i]["Wind Speed"]
              ELSE DataDF[i] = argDF[i]
        /\ ReplacedValuesDF["3. Swapped"]
               = [c \in Cols |-> IF c \in {"Max Temp", "Min Temp"}
                                 THEN Cardinality(Inverted(argDF)) ELSE 0]

C5_Witness ==
    /\ pc = "Check03"
    /\ Inverted(argDF) # {}
    /\ \E i \in RowIdx : ~BothTemps(argDF[i])

C7_SecondRunZero ==
    pc = "Check01Again" =>
        /\ DataDF = argDF
        /\ ReplacedValuesDF["1. No Data"] = ZeroRow

C9_MissingMonotone ==
    [][/\ Len(DataDF') = Len(DataDF)
       /\ \A i \in RowIdx : \A c \in Cols : DataDF[i][c].na => DataDF'[i][c].na
       /\ pc' \in {"Check03", "Check04"} =>
              \A i \in RowIdx : ~BothTemps(DataDF[i]) => DataDF'[i] = DataDF[i]]_vars

C9_Witness ==
    /\ pc = "Check04"
    /\ \E i \in RowIdx :
          /\ argDF[i]["Max Temp"].na /\ ~argDF[i]["Min Temp"].na
          /\ DataDF[i] = argDF[i]
    /\ \E i \in RowIdx :
          /\ ~argDF[i]["Max Temp"].na /\ argDF[i]["Min Temp"].na
          /\ DataDF[i] = argDF[i]

\* C10: after the four checks in order on all-zero counts, for every column
\* the number of missing values of the final table is
\* No Data + Gross Error + Range Fail.
C10_CountConservation ==
    pc = "Check04" =>
        \A c \in Cols :
            Cardinality(Missing(DataDF, c))
                = ReplacedValuesDF["1. No Data"][c]
                  + ReplacedValuesDF["2. Gross Error"][c]
                  + ReplacedValuesDF["4. Range Fail"][c]

C10_Witness ==
    /\ pc = "Check04"
    /\ ReplacedValuesDF["4. Range Fail"]["Max Temp"] > 0
    /\ ReplacedValuesDF["3. Swapped"]["Max Temp"] > 0
    /\ \E c \in Cols : ReplacedValuesDF["1. No Data"][c] > 0
    /\ \E c \in Cols : ReplacedValuesDF["2. Gross Error"][c] > 0
====
